---- MODULE Spec2Model ----
(***************************************************************************)
(* Model of the project initialisation pipeline of zero (package context,  *)
(* Init and its helpers) and of the create command (package cmd, Create).  *)
(*                                                                         *)
(* The program is a single coordinating flow whose position is pc, plus    *)
(* one fetch goroutine per module source between the launch of the fetches *)
(* and the WaitGroup barrier.                                              *)
(***************************************************************************)
EXTENDS Naturals, Sequences, FiniteSets, TLC

VARIABLES
    pc,               \* position of the coordinating flow
    projectName,      \* projectConfig.Name
    configParameters, \* projectConfig.Parameters
    fs,               \* what is at rootDir on disk: "absent", "dir" or "file"
    written,          \* files Create has written under rootDir
    moduleSources,    \* the source list handed to loadAllModules
    cache,            \* the local fetch destination of each source
    wg,               \* the WaitGroup counter
    task,             \* task[i]: state of the fetch goroutine of moduleSources[i]
    parsed,           \* the ParseModuleConfig calls made so far, in order
    modules,          \* the mapping loadAllModules builds
    loaded,           \* loadAllModules has returned its mapping
    initParams,       \* the answers map of Init
    shouldPush,       \* projectConfig.ShouldPushRepositories
    entered,          \* the inputs typed so far at the prompt being resolved
    asked,            \* the Field of every prompt shown to the user, in order
    resolutions,      \* what each GetParam call of Init did
    uniqueVendors,    \* the vendor list inside getCredentialPrompts
    credentialPrompts,\* vendor -> Fields of its prompts
    projectCredentials,\* the credentials entered in this run
    saved,            \* globalconfig.Save has been called
    parameterValues,  \* the answers map of promptAllModules
    prompted,         \* modules promptAllModules has visited
    projectModules,   \* projectConfig.Modules
    diagnostic,       \* the message of the fatal exit or of exit.Error, "" while there is none
    infrastructureAWS,\* projectConfig.Infrastructure.AWS
    awsCaller         \* what sts GetCallerIdentity returned to fillProviderDetails

vars == <<pc, projectName, configParameters, fs, written,
          moduleSources, cache, wg, task, parsed, modules, loaded,
          initParams, shouldPush, entered, asked, resolutions, uniqueVendors,
          credentialPrompts, projectCredentials, saved, parameterValues,
          prompted, projectModules, diagnostic, infrastructureAWS, awsCaller>>

----------------------------------------------------------------------------
(* Bounds of the model. *)

\* The longest source list loadAllModules is called with in LoadSpec.
MaxSources == 3

\* How many times the user may type a rejected value at one prompt.
MaxRetries == 2

----------------------------------------------------------------------------
(* Maps with string keys. *)

EmptyMap == [k \in {} |-> ""]

Put(m, k, v) == [x \in DOMAIN m \cup {k} |-> IF x = k THEN v ELSE m[x]]

Range(s) == {s[i] : i \in DOMAIN s}

----------------------------------------------------------------------------
(* The registry of stacks. *)

EksStack == "github.com/commitdev/zero-aws-eks-stack"
Backend == "github.com/commitdev/zero-deployable-backend"
Frontend == "github.com/commitdev/zero-deployable-react-frontend"

Sources == {EksStack, Backend, Frontend}

getRegistry ==
    [label \in {"EKS + Go + React", "Custom"} |->
        IF label = "EKS + Go + React"
        THEN <<EksStack, Backend, Frontend>>
        ELSE <<>>]

availableLabels(registry) == DOMAIN registry

----------------------------------------------------------------------------
(* Module descriptors: what a source may hold. *)

Param(field, label, default) ==
    [Field |-> field, Label |-> label, Default |-> default]

Descriptor(name, outputDir, creds, params) ==
    [kind |-> "descriptor", Name |-> name, OutputDir |-> outputDir,
     RequiredCredentials |-> creds, Parameters |-> params]

Malformed == [kind |-> "malformed"]
Missing == [kind |-> "missing"]

Region1 == Param("region", "AWS region", "us-east-1")
Region2 == Param("region", "Region", "eu-west-1")
AppName == Param("appName", "Application name", "")

\* The descriptors a source may hold; two of them declare the same Name.
Descriptors ==
    { Descriptor("infra", "infrastructure", <<"aws">>, <<Region1>>),
      Descriptor("backend", "backend-service", <<"github">>, <<Region2, AppName>>),
      Descriptor("frontend", "frontend", <<"aws", "circleci">>, <<>>),
      Descriptor("infra", "infra-v2", <<"gitlab", "aws">>, <<AppName>>) }

ProjectNames == {"app"}
ParamInputs == {"us-west-2", "shop"}
PushInputs == {"y", "n", "yes"}
OrgInputs == {"github.com/", "github.com/acme"}
CredInputs == {"secret"}

----------------------------------------------------------------------------
(* Prompt handlers: a Parameter, a Condition on the answers so far and a   *)
(* Validator of the typed value.                                           *)

NoCondition == [kind |-> "always"]
KeyMatchCondition(key, value) == [kind |-> "keyMatch", key |-> key, value |-> value]

NoValidation == [kind |-> "any"]
SpecificValueValidation(values) == [kind |-> "oneOf", values |-> values]

PromptHandler(param, condition, validator) ==
    [Parameter |-> param, Condition |-> condition, Validator |-> validator]

\* Condition(answers): a key the map does not hold reads as "".
ConditionHolds(c, answers) ==
    IF c.kind = "always" THEN TRUE
    ELSE (IF c.key \in DOMAIN answers THEN answers[c.key] ELSE "") = c.value

Validate(v, input) ==
    IF v.kind = "any" THEN TRUE ELSE input \in v.values

\* The value GetParam returns when the Condition is false: the handler
\* resolves to "absent", and a Go string function then returns "".
AbsentValue == ""

\* GetParam that asks without evaluating the Condition.
GetParamUngated(h, answers, input) ==
    IF Validate(h.Validator, input)
    THEN [asks |-> TRUE, done |-> TRUE, value |-> input,
          answers |-> Put(answers, h.Parameter.Field, input)]
    ELSE [asks |-> TRUE, done |-> FALSE, value |-> input, answers |-> answers]

\* One pass of GetParam on the value the user types: the Condition gates the
\* ask; a rejected value leaves the handler pending (it asks again); an
\* accepted one is written to the answers and returned.
GetParam(h, answers, input) ==
    IF ~ConditionHolds(h.Condition, answers)
    THEN [asks |-> FALSE, done |-> TRUE, value |-> AbsentValue, answers |-> answers]
    ELSE IF Validate(h.Validator, input)
    THEN [asks |-> TRUE, done |-> TRUE, value |-> input,
          answers |-> Put(answers, h.Parameter.Field, input)]
    ELSE [asks |-> TRUE, done |-> FALSE, value |-> input, answers |-> answers]

\* The record Init's resolution log keeps of one finished GetParam call.
Resolution(h, answers, r) ==
    [Field |-> h.Parameter.Field,
     condition |-> ConditionHolds(h.Condition, answers),
     asked |-> r.asks,
     wrote |-> r.answers # answers,
     present |-> h.Parameter.Field \in DOMAIN r.answers]

getProjectNamePrompt ==
    PromptHandler(Param("projectName", "Project Name", ""), NoCondition, NoValidation)

\* ShouldPushRepositories built with NoValidation.
ShouldPushNoValidation == NoValidation

ShouldPushValidator == SpecificValueValidation({"y", "n"})

\* The GithubRootOrg prompt without a Condition.
GithubRootOrgUnconditional == NoCondition

GithubRootOrgCondition == KeyMatchCondition("ShouldPushRepositories", "y")

RECURSIVE ModuleHandlers(_, _, _)
ModuleHandlers(handlers, names, mods) ==
    IF names = {} THEN handlers
    ELSE LET moduleName == CHOOSE n \in names : TRUE
             label == <<"What do you want to call the ", moduleName, " project?">>
         IN ModuleHandlers(
                Put(handlers, moduleName,
                    PromptHandler(Param(moduleName, label, mods[moduleName].OutputDir),
                                  NoCondition, NoValidation)),
                names \ {moduleName}, mods)

getProjectPrompts(name, mods) ==
    LET handlers ==
            [k \in {"ShouldPushRepositories", "GithubRootOrg"} |->
                IF k = "ShouldPushRepositories"
                THEN PromptHandler(
                         Param("ShouldPushRepositories",
                               "Should the created projects be checked into github automatically? (y/n)",
                               "y"),
                         NoCondition, ShouldPushValidator)
                ELSE PromptHandler(
                         Param("GithubRootOrg",
                               "What's the root of the github org to create repositories in?",
                               "github.com/"),
                         GithubRootOrgCondition, NoValidation)]
    IN ModuleHandlers(handlers, DOMAIN mods, mods)

----------------------------------------------------------------------------
(* The file system call of Init and Create. *)

\* os.MkdirAll(rootDir): nil when rootDir is already a directory, ENOTDIR
\* when it is a file, and otherwise it creates the directory or fails.
MkdirAll(state) ==
    CASE state = "dir" -> {"nil"}
      [] state = "file" -> {"ENOTDIR"}
      [] OTHER -> {"nil", "EACCES"}

\* os.IsExist(err): true of EEXIST and ENOTEMPTY only.
IsExist(err) == err \in {"EEXIST", "ENOTEMPTY"}

\* Where the flow goes after MkdirAll returned err.
MkdirDiagnostic(err) ==
    IF IsExist(err) THEN "Directory already exists"
    ELSE IF err # "nil" THEN "Error creating root"
    ELSE ""

----------------------------------------------------------------------------
(* loadAllModules and the two calls it makes into package module. *)

\* What FetchModule may leave at a source's destination: a descriptor the
\* source holds, a malformed one, or (the fetch failed) what was there.
Fetched(before) == Descriptors \cup {Malformed, before}

\* ParseModuleConfig on the content of a source's destination.
ParseModuleConfig(content) ==
    IF content.kind = "descriptor"
    THEN [err |-> FALSE,
          mod |-> [Name |-> content.Name, OutputDir |-> content.OutputDir,
                   RequiredCredentials |-> content.RequiredCredentials,
                   Parameters |-> content.Parameters]]
    ELSE [err |-> TRUE, mod |-> [Name |-> ""]]

\* No wg.Wait(): the flow goes on while fetches run.
WaitReturnsAtOnce(counter) == TRUE

\* wg.Wait() returns once the counter is zero.
WaitReturns(counter) == counter = 0

\* The mapping keyed by the module's OutputDir.
StoreModuleByOutputDir(mods, mod) == Put(mods, mod.OutputDir, mod)

\* The mapping keeps the first module of a Name.
StoreModuleKeepFirst(mods, mod) ==
    IF mod.Name \in DOMAIN mods THEN mods ELSE Put(mods, mod.Name, mod)

\* modules[mod.Name] = mod
StoreModule(mods, mod) == Put(mods, mod.Name, mod)

\* The parse loop skips a source that does not parse.
AfterParseSkip(err) == "parse"

\* Where the parse loop goes after one ParseModuleConfig call.
AfterParse(err) == IF err THEN "fatal" ELSE "parse"

----------------------------------------------------------------------------
(* Init: the state when the command starts. *)

\* projectConfig.Infrastructure.AWS of defaultProjConfig: nil.
NoAWS == [configured |-> FALSE]

\* A configured AWS infrastructure.
AWS(region, accountID) ==
    [configured |-> TRUE, Region |-> region, AccountID |-> accountID]

\* GetCallerIdentity has not been called.
NotCalled == [called |-> FALSE]

Blank ==
    /\ projectName = ""
    /\ configParameters = EmptyMap
    /\ written = {}
    /\ cache = [s \in Sources |-> Missing]
    /\ wg = 0
    /\ task = <<>>
    /\ parsed = <<>>
    /\ modules = EmptyMap
    /\ loaded = FALSE
    /\ initParams = EmptyMap
    /\ shouldPush = FALSE
    /\ entered = <<>>
    /\ asked = <<>>
    /\ resolutions = {}
    /\ uniqueVendors = <<>>
    /\ credentialPrompts = EmptyMap
    /\ projectCredentials = EmptyMap
    /\ saved = FALSE
    /\ parameterValues = EmptyMap
    /\ prompted = {}
    /\ projectModules = EmptyMap
    /\ diagnostic = ""
    /\ infrastructureAWS = NoAWS
    /\ awsCaller = NotCalled

Init ==
    /\ pc \in {"init", "create"}
    /\ fs \in {"absent", "dir", "file"}
    /\ moduleSources = <<>>
    /\ Blank

\* Every state variable but the named ones.
LoadVars == <<moduleSources, cache, wg, task, parsed, modules, loaded>>
DiskVars == <<fs, written>>
ProjectVars == <<projectName, configParameters>>
AnswerVars == <<initParams, shouldPush, entered, resolutions>>
CredentialVars == <<uniqueVendors, credentialPrompts, projectCredentials, saved>>
ModuleVars == <<parameterValues, prompted, projectModules>>
ProviderVars == <<infrastructureAWS, awsCaller>>

Fatal(message) ==
    /\ pc' = "fatal"
    /\ diagnostic' = message

----------------------------------------------------------------------------
(* Init, lines 28-43. *)

\* projectConfig.Name = getProjectNamePrompt().GetParam(projectConfig.Parameters)
PromptProjectName ==
    /\ pc = "init"
    /\ \E input \in ProjectNames :
        LET r == GetParam(getProjectNamePrompt, configParameters, input)
        IN /\ projectName' = r.value
           /\ configParameters' = r.answers
           /\ asked' = IF r.asks THEN Append(asked, "projectName") ELSE asked
    /\ pc' = "mkdir"
    /\ UNCHANGED <<ProviderVars, DiskVars, LoadVars, AnswerVars, CredentialVars, ModuleVars,
                   diagnostic>>

\* os.MkdirAll(rootDir, os.ModePerm) and the two checks of its error.
MakeRootDir ==
    /\ pc = "mkdir"
    /\ \E err \in MkdirAll(fs) :
        /\ fs' = IF err = "nil" THEN "dir" ELSE fs
        /\ IF MkdirDiagnostic(err) # ""
           THEN Fatal(MkdirDiagnostic(err))
           ELSE pc' = "chooseStack" /\ UNCHANGED diagnostic
    /\ UNCHANGED <<ProviderVars, ProjectVars, written, LoadVars, AnswerVars, CredentialVars,
                   ModuleVars, asked>>

\* moduleSources := chooseStack(getRegistry())
ChooseStack ==
    /\ pc = "chooseStack"
    /\ \E label \in availableLabels(getRegistry) :
        moduleSources' = getRegistry[label]
    /\ pc' = "load"
    /\ UNCHANGED <<ProviderVars, ProjectVars, DiskVars, cache, wg, task, parsed, modules, loaded,
                   AnswerVars, CredentialVars, ModuleVars, asked, diagnostic>>

\* A prompt of promptui fails (the input stream is closed): exit.Fatal.
SelectFails ==
    /\ pc = "chooseStack"
    /\ Fatal("Prompt failed")
    /\ UNCHANGED <<ProviderVars, ProjectVars, DiskVars, LoadVars, AnswerVars, CredentialVars,
                   ModuleVars, asked>>

----------------------------------------------------------------------------
(* loadAllModules, lines 93-111. *)

\* wg.Add(len(moduleSources)) and one go module.FetchModule per source.
\* wg.Add that counts one task more than the launch loop starts.
WaitGroupSizePlusOne(sources) == Len(sources) + 1

\* wg.Add(len(moduleSources))
WaitGroupSize(sources) == Len(sources)

\* A launch loop whose goroutines all read the loop variable after the loop
\* has ended: every task fetches the last source.
FetchArgumentCaptured(sources, i) == sources[Len(sources)]

\* The source handed to the i-th goroutine: go module.FetchModule(moduleSource, &wg)
FetchArgument(sources, i) == sources[i]

\* The fetch destination of a source: one path per source.
Destination(source) == source

LaunchFetches ==
    /\ pc = "load"
    /\ wg' = WaitGroupSize(moduleSources)
    /\ task' = [i \in 1..Len(moduleSources) |-> "running"]
    /\ pc' = "wait"
    /\ UNCHANGED <<ProviderVars, ProjectVars, DiskVars, moduleSources, cache, parsed, modules,
                   loaded, AnswerVars, CredentialVars, ModuleVars, asked, diagnostic>>

\* The i-th goroutine starts to write the destination of its source.
BeginFetch(i) ==
    /\ i \in DOMAIN task
    /\ task[i] = "running"
    /\ task' = [task EXCEPT ![i] = "writing"]
    /\ UNCHANGED <<ProviderVars, pc, ProjectVars, DiskVars, moduleSources, cache, wg, parsed, modules,
                   loaded, AnswerVars, CredentialVars, ModuleVars, asked, diagnostic>>

\* The i-th goroutine finishes: the destination of its source is written and
\* the WaitGroup counter drops.
FetchModule(i) ==
    /\ i \in DOMAIN task
    /\ task[i] = "writing"
    /\ LET destination == Destination(FetchArgument(moduleSources, i))
       IN \E content \in Fetched(cache[destination]) :
            cache' = [cache EXCEPT ![destination] = content]
    /\ task' = [task EXCEPT ![i] = "done"]
    /\ wg' = wg - 1
    /\ UNCHANGED <<ProviderVars, pc, ProjectVars, DiskVars, moduleSources, parsed, modules, loaded,
                   AnswerVars, CredentialVars, ModuleVars, asked, diagnostic>>

\* wg.Wait()
WaitForFetches ==
    /\ pc = "wait"
    /\ WaitReturns(wg)
    /\ pc' = "parse"
    /\ UNCHANGED <<ProviderVars, ProjectVars, DiskVars, LoadVars, AnswerVars, CredentialVars,
                   ModuleVars, asked, diagnostic>>

\* One iteration of the parse loop.
ParseNext ==
    /\ pc = "parse"
    /\ Len(parsed) < Len(moduleSources)
    /\ LET moduleSource == moduleSources[Len(parsed) + 1]
           r == ParseModuleConfig(cache[moduleSource])
       IN /\ parsed' = Append(parsed, [source |-> moduleSource, err |-> r.err, mod |-> r.mod])
          /\ pc' = AfterParse(r.err)
          /\ diagnostic' = IF AfterParse(r.err) = "fatal" THEN "Unable to load module" ELSE diagnostic
          /\ modules' = IF r.err THEN modules ELSE StoreModule(modules, r.mod)
    /\ UNCHANGED <<ProviderVars, ProjectVars, DiskVars, moduleSources, cache, wg, task, loaded,
                   AnswerVars, CredentialVars, ModuleVars, asked>>

\* return modules
LoadReturn ==
    /\ pc = "parse"
    /\ Len(parsed) = Len(moduleSources)
    /\ loaded' = TRUE
    /\ pc' = "pushPrompt"
    /\ UNCHANGED <<ProviderVars, ProjectVars, DiskVars, moduleSources, cache, wg, task, parsed,
                   modules, AnswerVars, CredentialVars, ModuleVars, asked, diagnostic>>

----------------------------------------------------------------------------
(* Init, lines 46-56: the project prompts. *)

prompts == getProjectPrompts(projectName, modules)

\* promptAllModules with its map made anew in every iteration of the loop.
AnswersGivenFresh(position) ==
    IF position = "modulePrompts" THEN EmptyMap ELSE initParams

\* The answers map a prompt is handed: parameterValues (made at line 115) by
\* promptAllModules, initParams (made at line 48) by the prompts of Init.
AnswersGiven(position) ==
    IF position = "modulePrompts" THEN parameterValues ELSE initParams

\* projectConfig.ShouldPushRepositories = true, then
\* initParams["ShouldPushRepositories"] = prompts[...].GetParam(initParams) and
\* the test of the answer. A rejected value is asked for again.
PromptShouldPush ==
    /\ pc = "pushPrompt"
    /\ \E input \in PushInputs :
        LET h == prompts["ShouldPushRepositories"]
            r == GetParam(h, AnswersGiven("pushPrompt"), input)
        IN /\ r.done \/ Len(entered) < MaxRetries
           /\ asked' = IF r.asks /\ entered = <<>>
                       THEN Append(asked, h.Parameter.Field) ELSE asked
           /\ IF r.done
              THEN /\ initParams' = Put(r.answers, "ShouldPushRepositories", r.value)
                   /\ shouldPush' = (r.value # "n")
                   /\ resolutions' = resolutions \cup {Resolution(h, initParams, r)}
                   /\ entered' = <<>>
                   /\ pc' = "orgPrompt"
              ELSE /\ entered' = Append(entered, input)
                   /\ shouldPush' = TRUE
                   /\ UNCHANGED <<initParams, resolutions, pc>>
    /\ UNCHANGED <<ProviderVars, ProjectVars, DiskVars, LoadVars, CredentialVars, ModuleVars,
                   diagnostic>>

\* initParams["GithubRootOrg"] = prompts["GithubRootOrg"].GetParam(initParams)
PromptGithubRootOrg ==
    /\ pc = "orgPrompt"
    /\ \E input \in OrgInputs :
        LET h == prompts["GithubRootOrg"]
            r == GetParam(h, AnswersGiven("orgPrompt"), input)
        IN /\ asked' = IF r.asks THEN Append(asked, h.Parameter.Field) ELSE asked
           /\ initParams' = Put(r.answers, "GithubRootOrg", r.value)
           /\ resolutions' = resolutions \cup {Resolution(h, initParams, r)}
    /\ pc' = "credentials"
    /\ UNCHANGED <<ProviderVars, ProjectVars, DiskVars, LoadVars, shouldPush, entered,
                   CredentialVars, ModuleVars, diagnostic>>

----------------------------------------------------------------------------
(* Init, lines 57-60: the credentials. *)

\* The orders in which a range over a map with these keys may visit them.
Orders(keys) ==
    {o \in [1..Cardinality(keys) -> keys] : \A i, j \in DOMAIN o : o[i] = o[j] => i = j}

RECURSIVE appendToSet(_, _)
appendToSet(set, toAppend) ==
    IF toAppend = <<>> THEN set
    ELSE appendToSet(IF Head(toAppend) \in Range(set) THEN set
                     ELSE Append(set, Head(toAppend)),
                     Tail(toAppend))

\* The first loop with append in place of appendToSet.
RECURSIVE CollectVendorsAppend(_, _, _)
CollectVendorsAppend(vendors, order, mods) ==
    IF order = <<>> THEN vendors
    ELSE CollectVendorsAppend(vendors \o mods[Head(order)].RequiredCredentials,
                              Tail(order), mods)

\* The first loop of getCredentialPrompts, visiting the modules in this order.
RECURSIVE CollectVendors(_, _, _)
CollectVendors(vendors, order, mods) ==
    IF order = <<>> THEN vendors
    ELSE CollectVendors(appendToSet(vendors, mods[Head(order)].RequiredCredentials),
                        Tail(order), mods)

GetProjectCredentials(name) ==
    [AWSResourceConfig |-> [AccessKeyId |-> "", SecretAccessKey |-> ""],
     GithubResourceConfig |-> [AccessToken |-> ""],
     CircleCiResourceConfig |-> [ApiKey |-> ""]]

\* mapVendorToPrompts whose switch has no case for circleci.
mapVendorToPromptsNoCircleCi(projectCred, vendor) ==
    CASE vendor = "aws" ->
            << PromptHandler(Param("accessKeyId", "AWS Access Key ID",
                                   projectCred.AWSResourceConfig.AccessKeyId),
                             NoCondition, NoValidation),
               PromptHandler(Param("secretAccessKey", "AWS Secret access key",
                                   projectCred.AWSResourceConfig.SecretAccessKey),
                             NoCondition, NoValidation) >>
      [] vendor = "github" ->
            << PromptHandler(Param("accessToken",
                                   "Github Personal Access Token with access to the above organization",
                                   projectCred.GithubResourceConfig.AccessToken),
                             NoCondition, NoValidation) >>
      [] OTHER -> <<>>

mapVendorToPrompts(projectCred, vendor) ==
    CASE vendor = "aws" ->
            << PromptHandler(Param("accessKeyId", "AWS Access Key ID",
                                   projectCred.AWSResourceConfig.AccessKeyId),
                             NoCondition, NoValidation),
               PromptHandler(Param("secretAccessKey", "AWS Secret access key",
                                   projectCred.AWSResourceConfig.SecretAccessKey),
                             NoCondition, NoValidation) >>
      [] vendor = "github" ->
            << PromptHandler(Param("accessToken",
                                   "Github Personal Access Token with access to the above organization",
                                   projectCred.GithubResourceConfig.AccessToken),
                             NoCondition, NoValidation) >>
      [] vendor = "circleci" ->
            << PromptHandler(Param("apiKey", "Circleci api key for CI/CD",
                                   projectCred.CircleCiResourceConfig.ApiKey),
                             NoCondition, NoValidation) >>
      [] OTHER -> <<>>

\* The second loop of getCredentialPrompts.
VendorPrompts(projectCred, vendors) ==
    [vendor \in Range(vendors) |-> mapVendorToPrompts(projectCred, vendor)]

\* promptCredentialsAndFillProjectCreds: every prompt of every vendor is
\* answered and the answer recorded under its vendor.
FillProjectCreds(byVendor, input) ==
    [vendor \in DOMAIN byVendor |->
        [i \in DOMAIN byVendor[vendor] |->
            GetParam(byVendor[vendor][i], EmptyMap, input).value]]

\* getCredentialPrompts, lines 180-183: the modules are visited in any order.
CollectUniqueVendors ==
    /\ pc = "credentials"
    /\ \E order \in Orders(DOMAIN modules) :
        uniqueVendors' = CollectVendors(<<>>, order, modules)
    /\ pc' = "vendorPrompts"
    /\ UNCHANGED <<ProviderVars, ProjectVars, DiskVars, LoadVars, AnswerVars, credentialPrompts,
                   projectCredentials, saved, ModuleVars, asked, diagnostic>>

\* getCredentialPrompts, lines 185-189, and the prompting of line 59.
PromptCredentials ==
    /\ pc = "vendorPrompts"
    /\ \E input \in CredInputs :
        LET stored == GetProjectCredentials(projectName)
            byVendor == VendorPrompts(stored, uniqueVendors)
        IN /\ credentialPrompts' = byVendor
           /\ projectCredentials' = FillProjectCreds(byVendor, input)
    /\ uniqueVendors' = <<>>
    /\ pc' = "save"
    /\ UNCHANGED <<ProviderVars, ProjectVars, DiskVars, LoadVars, AnswerVars, saved, ModuleVars,
                   asked, diagnostic>>

\* globalconfig.Save(projectCredentials)
SaveCredentials ==
    /\ pc = "save"
    /\ saved' = TRUE
    /\ pc' = "modulePrompts"
    /\ UNCHANGED <<ProviderVars, ProjectVars, DiskVars, LoadVars, AnswerVars, uniqueVendors,
                   credentialPrompts, projectCredentials, ModuleVars, asked,
                   diagnostic>>

----------------------------------------------------------------------------
(* promptAllModules, lines 114-124. *)

\* PromptModuleParams: the module's parameters in their declared order, each
\* asked unless an earlier module's prompt already answered its Field.
RECURSIVE PromptModuleParams(_, _, _, _)
PromptModuleParams(params, values, log, answer) ==
    IF params = <<>> THEN [values |-> values, asked |-> log]
    ELSE LET p == Head(params)
         IN IF p.Field \in DOMAIN values
            THEN PromptModuleParams(Tail(params), values, log, answer)
            ELSE LET r == GetParam(PromptHandler(p, NoCondition, NoValidation),
                                   values, answer[p.Field])
                 IN PromptModuleParams(Tail(params), r.answers,
                                       Append(log, p.Field), answer)

Fields(mods) ==
    UNION {{mods[n].Parameters[i].Field : i \in DOMAIN mods[n].Parameters} : n \in DOMAIN mods}

\* One iteration of the range over modules: the map is visited in any order.
PromptModule(name) ==
    /\ pc = "modulePrompts"
    /\ name \in DOMAIN modules \ prompted
    /\ \E answer \in [Fields(modules) -> ParamInputs] :
        LET r == PromptModuleParams(modules[name].Parameters,
                                    AnswersGiven("modulePrompts"), <<>>, answer)
        IN /\ parameterValues' = r.values
           /\ asked' = asked \o r.asked
    /\ prompted' = prompted \cup {name}
    /\ UNCHANGED <<ProviderVars, pc, ProjectVars, DiskVars, LoadVars, AnswerVars, CredentialVars,
                   projectModules, diagnostic>>

\* PromptModuleParams returns an error: exit.Fatal("Exiting prompt").
PromptModuleFails ==
    /\ pc = "modulePrompts"
    /\ DOMAIN modules \ prompted # {}
    /\ Fatal("Exiting prompt")
    /\ UNCHANGED <<ProviderVars, ProjectVars, DiskVars, LoadVars, AnswerVars, CredentialVars,
                   ModuleVars, asked>>

\* return parameterValues
PromptAllReturn ==
    /\ pc = "modulePrompts"
    /\ prompted = DOMAIN modules
    /\ pc' = "assign"
    /\ UNCHANGED <<ProviderVars, ProjectVars, DiskVars, LoadVars, AnswerVars, CredentialVars,
                   ModuleVars, asked, diagnostic>>

----------------------------------------------------------------------------
(* Init, lines 63-90: the parameters of each module. *)

\* The inner loop without the comparison of the Field.
RECURSIVE MatchParametersUnfiltered(_, _, _, _)
MatchParametersUnfiltered(acc, moduleParameters, parameterKey, parameterValue) ==
    IF moduleParameters = <<>> THEN acc
    ELSE MatchParametersUnfiltered(Put(acc, parameterKey, parameterValue),
                                   Tail(moduleParameters), parameterKey, parameterValue)

\* The inner loop, lines 71-75: the module's parameters against one answer.
RECURSIVE MatchParameters(_, _, _, _)
MatchParameters(acc, moduleParameters, parameterKey, parameterValue) ==
    IF moduleParameters = <<>> THEN acc
    ELSE MatchParameters(
             IF Head(moduleParameters).Field = parameterKey
             THEN Put(acc, parameterKey, parameterValue)
             ELSE acc,
             Tail(moduleParameters), parameterKey, parameterValue)

\* The loop of lines 70-77 over the answered parameters.
RECURSIVE CollectParameters(_, _, _, _)
CollectParameters(acc, keys, projectParameters, moduleParameters) ==
    IF keys = {} THEN acc
    ELSE LET parameterKey == CHOOSE k \in keys : TRUE
         IN CollectParameters(
                MatchParameters(acc, moduleParameters, parameterKey,
                                projectParameters[parameterKey]),
                keys \ {parameterKey}, projectParameters, moduleParameters)

projectModuleParams(projectParameters, module) ==
    CollectParameters(EmptyMap, DOMAIN projectParameters, projectParameters,
                      module.Parameters)

NewModule(parameters, repoName, repoURL) ==
    [Parameters |-> parameters, RepoName |-> repoName, RepoURL |-> repoURL]

\* What the user may type at the repository name prompt of a module.
RepoInputs(module) == {module.OutputDir, "my-repo"}

\* A repository URL built with the default organisation, not the answer.
RepoURLDefaultOrg(org, repoName) == <<"github.com/", "/", repoName>>

\* fmt.Sprintf("%s/%s", initParams["GithubRootOrg"], repoName)
RepoURL(org, repoName) == <<org, "/", repoName>>

\* One iteration of the range over moduleConfigs, lines 64-80.
AssignModule(moduleName) ==
    /\ pc = "assign"
    /\ moduleName \in DOMAIN modules \ DOMAIN projectModules
    /\ \E input \in RepoInputs(modules[moduleName]) :
        LET h == prompts[moduleName]
            r == GetParam(h, AnswersGiven("assign"), input)
            repoName == r.value
            repoURL == RepoURL(r.answers["GithubRootOrg"], repoName)
        IN /\ asked' = IF r.asks THEN Append(asked, h.Parameter.Field) ELSE asked
           /\ initParams' = r.answers
           /\ resolutions' = resolutions \cup {Resolution(h, initParams, r)}
           /\ projectModules' =
                Put(projectModules, moduleName,
                    NewModule(projectModuleParams(parameterValues, modules[moduleName]),
                              repoName, repoURL))
    /\ UNCHANGED <<ProviderVars, pc, ProjectVars, DiskVars, LoadVars, shouldPush, entered,
                   CredentialVars, parameterValues, prompted, diagnostic>>

\* return &projectConfig
InitReturn ==
    /\ pc = "assign"
    /\ DOMAIN projectModules = DOMAIN modules
    /\ pc' = "done"
    /\ UNCHANGED <<ProviderVars, ProjectVars, DiskVars, LoadVars, AnswerVars, CredentialVars,
                   ModuleVars, asked, diagnostic>>

\* The ask of a GetParam call of Init fails: exit.Fatal.
GetParamFails ==
    /\ \/ pc \in {"init", "pushPrompt"}
       \/ pc = "orgPrompt" /\ ConditionHolds(prompts["GithubRootOrg"].Condition, initParams)
       \/ pc = "vendorPrompts" /\ \E v \in Range(uniqueVendors) :
                mapVendorToPrompts(GetProjectCredentials(projectName), v) # <<>>
       \/ pc = "assign" /\ DOMAIN projectModules # DOMAIN modules
    /\ Fatal("Exiting prompt")
    /\ UNCHANGED <<ProviderVars, ProjectVars, DiskVars, LoadVars, AnswerVars, CredentialVars,
                   ModuleVars, asked>>

----------------------------------------------------------------------------
(* The create command, src/cmd/create.go. *)

\* createCmd.Run: the project name is the first argument.
CreateCommand ==
    /\ pc = "create"
    /\ \/ /\ \E name \in ProjectNames : projectName' = name
          /\ pc' = "createMkdir"
          /\ UNCHANGED diagnostic
       \/ /\ Fatal("Project name cannot be empty!")
          /\ UNCHANGED projectName
    /\ UNCHANGED <<ProviderVars, configParameters, DiskVars, LoadVars, AnswerVars, CredentialVars,
                   ModuleVars, asked>>

\* Create, lines 18-26.
CreateRootDir ==
    /\ pc = "createMkdir"
    /\ \E err \in MkdirAll(fs) :
        /\ fs' = IF err = "nil" THEN "dir" ELSE fs
        /\ IF MkdirDiagnostic(err) # ""
           THEN Fatal(MkdirDiagnostic(err))
           ELSE pc' = "createFiles" /\ UNCHANGED diagnostic
    /\ UNCHANGED <<ProviderVars, ProjectVars, written, LoadVars, AnswerVars, CredentialVars,
                   ModuleVars, asked>>

\* Create, lines 28-44: os.Create truncates a file that is there.
CreateFiles ==
    /\ pc = "createFiles"
    /\ written' = {"commit0.yml", ".gitignore"}
    /\ pc' = "created"
    /\ UNCHANGED <<ProviderVars, ProjectVars, fs, LoadVars, AnswerVars, CredentialVars,
                   ModuleVars, asked, diagnostic>>

----------------------------------------------------------------------------
(* The specifications. *)

LoadNext ==
    \/ LaunchFetches
    \/ \E i \in DOMAIN task : BeginFetch(i)
    \/ \E i \in DOMAIN task : FetchModule(i)
    \/ WaitForFetches
    \/ ParseNext
    \/ LoadReturn

Next ==
    \/ PromptProjectName
    \/ MakeRootDir
    \/ ChooseStack
    \/ SelectFails
    \/ LoadNext
    \/ PromptShouldPush
    \/ PromptGithubRootOrg
    \/ CollectUniqueVendors
    \/ PromptCredentials
    \/ SaveCredentials
    \/ \E name \in DOMAIN modules : PromptModule(name)
    \/ PromptModuleFails
    \/ PromptAllReturn
    \/ \E name \in DOMAIN modules : AssignModule(name)
    \/ InitReturn
    \/ GetParamFails
    \/ CreateCommand
    \/ CreateRootDir
    \/ CreateFiles

\* A run of the init command or of the create command.
Spec == Init /\ [][Next]_vars

\* The source lists loadAllModules may be called with.
SourceLists == UNION {[1..n -> Sources] : n \in 0..MaxSources}

LoadInit ==
    /\ pc = "load"
    /\ fs = "dir"
    /\ moduleSources \in SourceLists
    /\ Blank

\* loadAllModules alone, on any source list.
LoadSpec == LoadInit /\ [][LoadNext]_vars

\* loadAllModules with a coordinating flow that runs whenever it is not
\* blocked; a fetch goroutine may take for ever.
LoadLive ==
    /\ LoadInit
    /\ [][LoadNext]_vars
    /\ WF_vars(LaunchFetches)
    /\ WF_vars(WaitForFetches)
    /\ WF_vars(ParseNext)
    /\ WF_vars(LoadReturn)

----------------------------------------------------------------------------
(* fillProviderDetails, lines 296-322. session.NewSession is taken to      *)
(* return a session.                                                       *)

Regions == {"us-east-1", "us-west-2"}
AccountIDs == {"", "111111111111"}
CallerAccounts == {"123456789012", "210987654321"}

\* A pointer is nil (the empty sequence) or holds one value.
NilPointer == <<>>
PointerTo(value) == <<value>>

\* What GetCallerIdentity may return: an output with an account, an output
\* without one, or an error (an awserr.Error or another one) with an empty
\* output or none.
CallerOutcomes ==
    {[called |-> TRUE, err |-> "nil", isNil |-> FALSE, Account |-> PointerTo(a)] :
        a \in CallerAccounts}
    \cup {[called |-> TRUE, err |-> "nil", isNil |-> FALSE, Account |-> NilPointer]}
    \cup {[called |-> TRUE, err |-> e, isNil |-> n, Account |-> NilPointer] :
            e \in {"awserr", "error"}, n \in BOOLEAN}

\* exit.Error: the error is reported and the flow goes on at the next statement.
exitError(next) == next

\* The assignment of the account without the test of the two pointers.
AccountToRecordUnchecked(infra, caller) ==
    [infra EXCEPT !.AccountID =
        IF caller.Account = NilPointer THEN "" ELSE caller.Account[1]]

\* Lines 318-320: the account is recorded when the output and its Account
\* are not nil.
AccountToRecord(infra, caller) ==
    IF ~caller.isNil /\ caller.Account # NilPointer
    THEN [infra EXCEPT !.AccountID = caller.Account[1]]
    ELSE infra

ProviderFrame ==
    UNCHANGED <<ProjectVars, DiskVars, LoadVars, AnswerVars, CredentialVars,
                ModuleVars, asked>>

\* if projectConfig.Infrastructure.AWS != nil
EnterFillProvider ==
    /\ pc = "fillProvider"
    /\ pc' = IF infrastructureAWS.configured THEN "identity" ELSE "filled"
    /\ UNCHANGED <<ProviderVars, diagnostic>>
    /\ ProviderFrame

\* awsCaller, err := svc.GetCallerIdentity(input)
GetCallerIdentity ==
    /\ pc = "identity"
    /\ \E outcome \in CallerOutcomes :
        /\ awsCaller' = outcome
        /\ pc' = IF outcome.err # "nil" THEN "reportError" ELSE "account"
    /\ UNCHANGED <<infrastructureAWS, diagnostic>>
    /\ ProviderFrame

\* exit.Error(aerr.Error()) or exit.Error(err.Error())
ReportLookupError ==
    /\ pc = "reportError"
    /\ diagnostic' = IF awsCaller.err = "awserr" THEN "aerr.Error()" ELSE "err.Error()"
    /\ pc' = exitError("account")
    /\ UNCHANGED ProviderVars
    /\ ProviderFrame

\* projectConfig.Infrastructure.AWS.AccountID = *awsCaller.Account
RecordAccount ==
    /\ pc = "account"
    /\ infrastructureAWS' = AccountToRecord(infrastructureAWS, awsCaller)
    /\ pc' = "filled"
    /\ UNCHANGED <<awsCaller, diagnostic>>
    /\ ProviderFrame

ProviderNext ==
    \/ EnterFillProvider
    \/ GetCallerIdentity
    \/ ReportLookupError
    \/ RecordAccount

\* A call of fillProviderDetails on a project configuration and secrets.
ProviderInit ==
    /\ pc = "fillProvider"
    /\ projectName \in ProjectNames
    /\ shouldPush \in BOOLEAN
    /\ infrastructureAWS \in {NoAWS} \cup {AWS(r, a) : r \in Regions, a \in AccountIDs}
    /\ projectCredentials \in {EmptyMap, [vendor \in {"aws"} |-> <<"secret", "secret">>]}
    /\ awsCaller = NotCalled
    /\ fs = "dir"
    /\ moduleSources = <<>>
    /\ configParameters = EmptyMap
    /\ written = {}
    /\ cache = [s \in Sources |-> Missing]
    /\ wg = 0
    /\ task = <<>>
    /\ parsed = <<>>
    /\ modules = EmptyMap
    /\ loaded = FALSE
    /\ initParams = EmptyMap
    /\ entered = <<>>
    /\ asked = <<>>
    /\ resolutions = {}
    /\ uniqueVendors = <<>>
    /\ credentialPrompts = EmptyMap
    /\ saved = FALSE
    /\ parameterValues = EmptyMap
    /\ prompted = {}
    /\ projectModules = EmptyMap
    /\ diagnostic = ""

ProviderSpec == ProviderInit /\ [][ProviderNext]_vars

----------------------------------------------------------------------------
(* The claims. *)

DeclaredFields(module) ==
    {module.Parameters[i].Field : i \in DOMAIN module.Parameters}

\* C1: the parameter mapping Init stores for a module holds exactly the
\* answers of promptAllModules whose key is the Field of a Parameter the
\* module declares, each with its answered value: no undeclared field, no
\* declared and answered field missing, one value for a field two modules
\* declare.
C1_FanOutExact ==
    \A name \in DOMAIN projectModules :
        LET stored == projectModules[name].Parameters
        IN /\ DOMAIN stored = DeclaredFields(modules[name]) \cap DOMAIN parameterValues
           /\ \A k \in DOMAIN stored : stored[k] = parameterValues[k]

\* Init has returned with two modules that share the field region, one of
\* which alone declares appName.
C1_Witness ==
    /\ pc = "done"
    /\ \E a, b \in DOMAIN projectModules :
        /\ DOMAIN projectModules[a].Parameters = {"region"}
        /\ DOMAIN projectModules[b].Parameters = {"region", "appName"}
        /\ DOMAIN parameterValues = {"region", "appName"}

\* C2: after ShouldPushRepositories is answered "n", the GithubRootOrg
\* prompt is never shown and initParams never holds the key GithubRootOrg.
C2_OrgAbsentWhenNotPushing ==
    ("ShouldPushRepositories" \in DOMAIN initParams
        /\ initParams["ShouldPushRepositories"] = "n")
    => /\ "GithubRootOrg" \notin Range(asked)
       /\ "GithubRootOrg" \notin DOMAIN initParams

C4_OnlyYesOrNoAccepted ==
    /\ "ShouldPushRepositories" \in DOMAIN initParams
        => initParams["ShouldPushRepositories"] \in {"y", "n"}
    /\ entered # <<>>
        => /\ pc \in {"pushPrompt", "fatal"}
           /\ "ShouldPushRepositories" \notin DOMAIN initParams
           /\ \A i \in DOMAIN entered : entered[i] \notin {"y", "n"}
    /\ pc \in {"orgPrompt", "credentials", "vendorPrompts", "save", "modulePrompts",
               "assign", "done"}
        => "ShouldPushRepositories" \in DOMAIN initParams

\* A value other than "y" and "n" was typed and the prompt is asking again.
C4_Witness ==
    /\ pc = "pushPrompt"
    /\ entered = <<"yes">>
    /\ "ShouldPushRepositories" \notin DOMAIN initParams


AllParsed == \A i \in DOMAIN parsed : ~parsed[i].err

DistinctSources ==
    \A i, j \in DOMAIN moduleSources : moduleSources[i] = moduleSources[j] => i = j

DistinctNames ==
    \A i, j \in DOMAIN parsed : parsed[i].mod.Name = parsed[j].mod.Name => i = j

KeyedByName ==
    /\ DOMAIN modules = {parsed[i].mod.Name : i \in DOMAIN parsed}
    /\ \A k \in DOMAIN modules : modules[k].Name = k
    /\ DOMAIN modules \cap Sources = {}

\* C5 as stated: N distinct sources that all parse give a mapping of exactly
\* N entries, each keyed by the module's Name.
C5_OneEntryPerSource ==
    (loaded /\ DistinctSources /\ AllParsed)
    => /\ Cardinality(DOMAIN modules) = Len(moduleSources)
       /\ KeyedByName

\* C5, amended: N distinct sources that all parse, to pairwise distinct
\* Names, give a mapping of exactly N entries, each keyed by the module's
\* Name and not by its source.
C5_OneEntryPerDistinctName ==
    (loaded /\ DistinctSources /\ AllParsed /\ DistinctNames)
    => /\ Cardinality(DOMAIN modules) = Len(moduleSources)
       /\ KeyedByName

\* loadAllModules has returned three modules of three sources.
C5_Witness ==
    /\ loaded
    /\ Len(moduleSources) = 3
    /\ DistinctSources
    /\ AllParsed
    /\ DistinctNames

\* The last source so far whose module has this Name.
LastParsed(name) ==
    CHOOSE i \in DOMAIN parsed :
        /\ ~parsed[i].err
        /\ parsed[i].mod.Name = name
        /\ \A j \in DOMAIN parsed :
            (~parsed[j].err /\ parsed[j].mod.Name = name) => j <= i

\* C6: the sources are parsed in the order of the input sequence, and the
\* mapping holds for each Name one entry, the module of the last source
\* parsed with that Name, in whatever order the fetches finished.
C6_LastParsedWins ==
    /\ Len(parsed) <= Len(moduleSources)
    /\ \A i \in DOMAIN parsed : parsed[i].source = moduleSources[i]
    /\ DOMAIN modules = {parsed[i].mod.Name : i \in {j \in DOMAIN parsed : ~parsed[j].err}}
    /\ \A name \in DOMAIN modules : modules[name] = parsed[LastParsed(name)].mod

\* loadAllModules has returned after two different sources gave different
\* modules of one Name.
C6_Witness ==
    /\ loaded
    /\ \E i, j \in DOMAIN parsed :
        /\ i < j
        /\ moduleSources[i] # moduleSources[j]
        /\ parsed[i].mod.Name = parsed[j].mod.Name
        /\ parsed[i].mod # parsed[j].mod

RequiredVendors ==
    UNION {Range(modules[n].RequiredCredentials) : n \in DOMAIN modules}

\* C7: the vendors getCredentialPrompts builds prompts for are the union of
\* the modules' RequiredCredentials, each once, in any order of the modules.
C7_VendorsAreUnion ==
    /\ pc = "vendorPrompts"
        => /\ Range(uniqueVendors) = RequiredVendors
           /\ Len(uniqueVendors) = Cardinality(RequiredVendors)
    /\ pc \in {"save", "modulePrompts", "assign", "done"}
        => DOMAIN credentialPrompts = RequiredVendors

\* The prompts are built for three vendors, one of them required by two
\* modules.
C7_Witness ==
    /\ pc = "save"
    /\ Cardinality(DOMAIN credentialPrompts) = 3
    /\ \E a, b \in DOMAIN modules :
        /\ a # b
        /\ "aws" \in Range(modules[a].RequiredCredentials)
        /\ "aws" \in Range(modules[b].RequiredCredentials)

\* C8: no source is parsed before every fetch task has finished.
C8_ParseAfterAllFetches ==
    parsed # <<>>
    => /\ wg = 0
       /\ DOMAIN task = DOMAIN moduleSources
       /\ \A i \in DOMAIN task : task[i] = "done"

\* A source has been parsed after several fetch tasks ran.
C8_Witness ==
    /\ parsed # <<>>
    /\ Len(task) >= 2

\* C9: a source that does not parse ends the process with a diagnostic: the
\* mapping is never returned, no later source is parsed and no prompt of the
\* later pipeline is shown.
C9_ParseFailureIsFatal ==
    \A i \in DOMAIN parsed :
        parsed[i].err =>
            /\ i = Len(parsed)
            /\ pc = "fatal"
            /\ diagnostic = "Unable to load module"
            /\ ~loaded
            /\ Range(asked) \subseteq {"projectName"}
            /\ initParams = EmptyMap
            /\ credentialPrompts = EmptyMap
            /\ projectCredentials = EmptyMap
            /\ parameterValues = EmptyMap
            /\ projectModules = EmptyMap

\* The second source did not parse after the first gave a module.
C9_Witness ==
    /\ pc = "fatal"
    /\ Len(parsed) = 2
    /\ parsed[2].err
    /\ modules # EmptyMap

\* C10: when rootDir is already a directory, Init and Create end the process
\* at the MkdirAll check, before any stack selection, fetch or file write.
C10_ExistingDirIsFatal ==
    [][(pc \in {"mkdir", "createMkdir"} /\ fs = "dir") => pc' = "fatal"]_vars


\* Some credential was entered in this run.
CredentialsEntered ==
    \E vendor \in DOMAIN projectCredentials : projectCredentials[vendor] # <<>>

\* C11: a run of Init that ends in a fatal error has not called
\* globalconfig.Save with credentials entered in that run.
C11_NothingSavedBeforeFatal ==
    pc = "fatal" => ~(saved /\ CredentialsEntered)

\* The Fields of a sequence of handlers.
HandlerFields(handlers) == [i \in DOMAIN handlers |-> handlers[i].Parameter.Field]

\* C12: the prompts of a vendor are accessKeyId then secretAccessKey for aws,
\* accessToken for github, apiKey for circleci and none for any other vendor,
\* which is then asked nothing and fails nothing.
C12_VendorSchemas ==
    \A vendor \in DOMAIN credentialPrompts :
        /\ HandlerFields(credentialPrompts[vendor]) =
             CASE vendor = "aws" -> <<"accessKeyId", "secretAccessKey">>
               [] vendor = "github" -> <<"accessToken">>
               [] vendor = "circleci" -> <<"apiKey">>
               [] OTHER -> <<>>
        /\ Len(projectCredentials[vendor]) = Len(credentialPrompts[vendor])
        /\ vendor \notin {"aws", "github", "circleci"}
            => credentialPrompts[vendor] = <<>> /\ projectCredentials[vendor] = <<>>

\* The credentials of the three known vendors and of an unknown one have
\* been prompted for and the run went on.
C12_Witness ==
    /\ pc = "save"
    /\ DOMAIN credentialPrompts = {"aws", "github", "circleci", "gitlab"}

\* C13: the order of the module parameter prompts and of the repository name
\* prompts is determined by the loaded modules and the answers: at every
\* point of the two loops at most one module can be the next one visited.
C13_DeterministicPromptOrder ==
    /\ Cardinality({n \in DOMAIN modules : ENABLED PromptModule(n)}) <= 1
    /\ Cardinality({n \in DOMAIN modules : ENABLED AssignModule(n)}) <= 1

\* Two different fetch tasks write the same destination at the same time.
WriteContention ==
    \E i, j \in DOMAIN task :
        /\ i # j
        /\ task[i] = "writing"
        /\ task[j] = "writing"
        /\ Destination(FetchArgument(moduleSources, i))
             = Destination(FetchArgument(moduleSources, j))

AllFetched == pc # "load" /\ \A i \in DOMAIN task : task[i] = "done"

\* C15: loadAllModules launches one fetch task per source and blocks until
\* all have finished: while a task has not finished nothing is parsed and
\* the operation does not return, and once all have finished the operation
\* eventually returns or exits fatally.
C15_BlocksUntilAllFetched ==
    /\ [](pc # "load" => DOMAIN task = DOMAIN moduleSources)
    /\ [](pc # "load" /\ ~AllFetched => pc = "wait" /\ parsed = <<>> /\ ~loaded)
    /\ <>AllFetched => <>(loaded \/ pc = "fatal")

\* The coordinating flow is blocked: one task has finished, another has not.
C15_Witness ==
    /\ pc = "wait"
    /\ \E i, j \in DOMAIN task : task[i] = "done" /\ task[j] = "running"
    /\ parsed = <<>>

\* The positions of Init at which a prompt is handed an answers map.
PromptPositions == {"pushPrompt", "orgPrompt", "modulePrompts", "assign"}

\* A prompt is about to be resolved.
PromptPending ==
    \/ pc \in {"pushPrompt", "orgPrompt"}
    \/ pc = "modulePrompts" /\ DOMAIN modules \ prompted # {}
    \/ pc = "assign" /\ DOMAIN modules \ DOMAIN projectModules # {}

\* An answers map exists or is about to be accessed.
AnswersAccessed ==
    pc \in PromptPositions \/ initParams # EmptyMap \/ parameterValues # EmptyMap

NoFetchRunning == \A i \in DOMAIN task : task[i] = "done"

\* Every entry of the map before is an entry of the map after.
Extends(before, after) ==
    \A k \in DOMAIN before : k \in DOMAIN after /\ after[k] = before[k]

ConfigButAccountID ==
    <<projectName, configParameters, shouldPush, projectModules,
      infrastructureAWS.configured,
      IF infrastructureAWS.configured THEN infrastructureAWS.Region ELSE "">>

\* The lookup was made and returned an account.
AccountReturned ==
    awsCaller.called /\ awsCaller.err = "nil" /\ ~awsCaller.isNil
    /\ awsCaller.Account # NilPointer

\* C17: fillProviderDetails changes nothing of the project configuration but
\* Infrastructure.AWS.AccountID, and that only when AWS is configured and
\* the lookup returned an account; a failed lookup is reported, the flow
\* goes on and the configuration is left as it was; with Infrastructure.AWS
\* nil no lookup is made.
C17_OnlyAccountIDChanges ==
    [][/\ ConfigButAccountID' = ConfigButAccountID
       /\ infrastructureAWS' # infrastructureAWS =>
            /\ infrastructureAWS.configured
            /\ AccountReturned
            /\ infrastructureAWS'.AccountID = awsCaller.Account[1]
       /\ pc = "reportError" => pc' = "account" /\ diagnostic' # ""
       /\ (awsCaller.called /\ awsCaller.err # "nil") =>
            infrastructureAWS' = infrastructureAWS /\ pc' # "fatal"
       /\ ~infrastructureAWS.configured =>
            awsCaller' = NotCalled /\ pc' = "filled"]_vars

\* A failed lookup was reported and fillProviderDetails returned.
C17_Witness ==
    /\ pc = "filled"
    /\ awsCaller.called
    /\ awsCaller.err = "awserr"
    /\ diagnostic # ""
    /\ infrastructureAWS.AccountID = "111111111111"

\* C18: in the configuration Init returns, ShouldPushRepositories is false
\* exactly when the validated answer is "n" and true exactly when it is
\* "y", and the GithubRootOrg prompt was asked exactly when it is "y".
C18_PushFollowsAnswer ==
    pc = "done" =>
        LET answer == initParams["ShouldPushRepositories"]
        IN /\ answer \in {"y", "n"}
           /\ shouldPush <=> answer = "y"
           /\ ~shouldPush <=> answer = "n"
           /\ "GithubRootOrg" \in Range(asked) <=> answer = "y"

\* Init returned a configuration that does not push the repositories.
C18_Witness ==
    /\ pc = "done"
    /\ initParams["ShouldPushRepositories"] = "n"
    /\ ~shouldPush
    /\ projectModules # EmptyMap

\* C19: when Init returns, projectConfig.Modules has one entry per Name of
\* the mapping loadAllModules returned and no other; the repository name of
\* an entry is the answer to the repository name prompt of that module and
\* its repository URL is the GithubRootOrg value, "/" and that name, in
\* whatever order the modules were visited.
C19_OneModulePerName ==
    pc = "done" =>
        /\ DOMAIN projectModules = DOMAIN modules
        /\ \A name \in DOMAIN modules :
            /\ name \in DOMAIN initParams
            /\ projectModules[name].RepoName = initParams[name]
            /\ projectModules[name].RepoName \in RepoInputs(modules[name])
            /\ projectModules[name].RepoURL =
                 <<initParams["GithubRootOrg"], "/", projectModules[name].RepoName>>

\* Init returned three modules, one renamed and one with its default
\* repository name, under the organisation that was entered.
C19_Witness ==
    /\ pc = "done"
    /\ Cardinality(DOMAIN projectModules) = 3
    /\ initParams["GithubRootOrg"] = "github.com/acme"
    /\ \E a, b \in DOMAIN projectModules :
        /\ projectModules[a].RepoName = "my-repo"
        /\ projectModules[b].RepoName = modules[b].OutputDir

====
